---- MODULE Spec2Model ----
(***************************************************************************)
(* Model of ScanManager (src/main/scanLogic/scanManager.ts): one           *)
(* scanWorkspace invocation with its dependency fan-out, runner fan-out,   *)
(* Promise.all join, catch block and finally block.                        *)
(*                                                                         *)
(* JavaScript is run-to-completion: the code between two awaits runs       *)
(* without any promise callback interleaving.  The actions therefore are   *)
(* the awaits of scanWorkspace, the synchronous steps between two calls of *)
(* the caller-supplied checkCanceled callback, and the settlement of each  *)
(* launched task together with its .catch handler.                         *)
(***************************************************************************)
EXTENDS Integers, Sequences, FiniteSets

\* Bounds of the model
MaxEcosystems == 2
MaxManifests == 2
MaxRunners == 2
MaxPolls == 1
MaxNodes == 3

VARIABLES
    workspaceDescriptors, \* Map<PackageType, Uri[]> in iteration order: manifest count per entry
    jasRunners,           \* JasRunner[]: the value of shouldRun() of each runner
    reportAnalytics,      \* Configuration.getReportAnalytics()
    analytics,            \* outcome of scanDetails.startScan()
    multiScanId,          \* scanDetails.multiScanId
    tokenValidation,      \* scanDetails.jasRunnerFactory.supportedScans.tokenValidation
    runParams,            \* the params each runner's scan() was called with
    cancelRequested,      \* whether checkCanceled() raises ScanCancellationError when called
    pc,                   \* position of scanWorkspace
    idx,                  \* position of the for loop of runDependenciesScans
    status,               \* scanDetails.status
    depTask,              \* state of the promise pushed for each descriptor entry
    depError,             \* the error a dependency task rejected with
    polls,                \* polls of the remote job made by each dependency task
    runTask,              \* state of the promise pushed for each runner
    results,              \* tasks whose results were written to scanResults / the issues tree
    totalTasks,           \* the total handed to progressManager.startStep
    launched,             \* tasks in the order they were launched
    recheckCount,         \* calls of checkCanceled made by runDependenciesScans
    cancelSeen,           \* the checkpoint of scanWorkspace at which checkCanceled raised
    raised,               \* what scanWorkspace raised to its caller
    statusAtFinal,        \* scanDetails.status when the finally block ran
    log,                  \* calls of the finally block and the exit of scanWorkspace, in order
    graphRoot,            \* scanDependencyGraph: the tree, each node with its identity and parent
    vulnerable,           \* the identities the remote service has findings for
    gpc,                  \* position of the scan of scanDependencyGraph
    submitted,            \* the dependencies sent to the remote service
    graphResponse         \* the result returned: the tree positions with findings

vars == <<workspaceDescriptors, jasRunners, reportAnalytics, analytics, multiScanId, tokenValidation,
          runParams, polls, cancelRequested, pc, idx,
          status, depTask, depError, runTask, results, totalTasks, launched,
          recheckCount, cancelSeen, raised, statusAtFinal, log,
          graphRoot, vulnerable, gpc, submitted, graphResponse>>

scanVars == <<workspaceDescriptors, jasRunners, reportAnalytics, analytics, multiScanId, tokenValidation,
              runParams, polls, pc, idx,
              status, depTask, depError, runTask, results, totalTasks, launched,
              recheckCount, cancelSeen, raised, statusAtFinal, log>>

graphVars == <<graphRoot, vulnerable, gpc, submitted, graphResponse>>

RECURSIVE SeqsUpTo(_, _)
SeqsUpTo(S, n) ==
    IF n = 0 THEN {<<>>}
    ELSE LET shorter == SeqsUpTo(S, n - 1)
         IN shorter \cup {Append(s, x) : s \in {q \in shorter : Len(q) = n - 1}, x \in S}

Deps == DOMAIN workspaceDescriptors
Runners == DOMAIN jasRunners

DepId(i) == <<"dep", i>>
RunId(j) == <<"run", j>>

InitialStatus == "Pending"

RECURSIVE Reduce(_, _)
Reduce(values, count) ==
    IF values = <<>> THEN count
    ELSE Reduce(Tail(values), count + Head(values))

NonEmpty(values) == SelectSeq(values, LAMBDA n : n > 0)

calculateNumberOfTasks(runners, descriptors) ==
    Reduce(NonEmpty(descriptors), 0) + Len(runners)

\* CatchStatus with the two branches of the instanceof test swapped.
CatchStatus_Swapped(error) ==
    IF error = "ScanCancellationError" THEN "Failed" ELSE "Cancelled"

\* CatchStatus with the instanceof test lost: every error counts as a failure.
CatchStatus_AlwaysFailed(error) == "Failed"

CatchStatus(error) ==
    IF error = "ScanCancellationError" THEN "Cancelled" ELSE "Failed"

\* Finally with the usage report forgotten.
Finally_EndScanOnly(l) == Append(l, "endScan")

Finally(l) == l \o <<"endScan", "sendUsageReport">>

\* string | undefined: absent, the empty string, or an id
MultiScanIds == {"undefined", "", "msi-1"}

\* JavaScript truthiness of a string | undefined
Truthy(v) == v \notin {"undefined", ""}

\* BinaryEnvParams | undefined
Undefined == [defined |-> FALSE, msi |-> "absent", tokenValidation |-> "absent"]

\* BuildParams with the else branch taken in both cases: msi is lost.
BuildParams_Overwrites(msi, tv) ==
    LET params == IF Truthy(msi) THEN [Undefined EXCEPT !.defined = TRUE, !.msi = msi]
                  ELSE Undefined
    IN  IF tv THEN [Undefined EXCEPT !.defined = TRUE, !.tokenValidation = "true"]
        ELSE params

\* let params; if (multiScanId) {...}; if (tokenValidation) {...}
BuildParams(msi, tv) ==
    LET params == IF Truthy(msi) THEN [Undefined EXCEPT !.defined = TRUE, !.msi = msi]
                  ELSE Undefined
    IN  IF tv
        THEN IF params.defined THEN [params EXCEPT !.tokenValidation = "true"]
             ELSE [Undefined EXCEPT !.defined = TRUE, !.tokenValidation = "true"]
        ELSE params

\* The state once scanWorkspace is called with its arguments: nothing has
\* run yet.
Called ==
    /\ analytics = "notStarted"
    /\ runParams = [j \in DOMAIN jasRunners |-> Undefined]
    /\ cancelRequested = FALSE
    /\ pc = "getSupportedScans"
    /\ idx = 1
    /\ status = InitialStatus
    /\ depTask = [i \in DOMAIN workspaceDescriptors |-> "notLaunched"]
    /\ depError = [i \in DOMAIN workspaceDescriptors |-> "none"]
    /\ polls = [i \in DOMAIN workspaceDescriptors |-> 0]
    /\ runTask = [j \in DOMAIN jasRunners |-> "notLaunched"]
    /\ results = {}
    /\ totalTasks = -1
    /\ launched = <<>>
    /\ recheckCount = 0
    /\ cancelSeen = "none"
    /\ raised = "none"
    /\ statusAtFinal = "none"
    /\ log = <<>>
    /\ graphRoot = <<>>
    /\ vulnerable = {}
    /\ gpc = "idle"
    /\ submitted = <<>>
    /\ graphResponse = {}

\* A manifest list of the descriptor map: empty, or with one manifest.
EmptyOrNot == {0, 1}

\* scanWorkspace on any descriptor map and runner list, for a session
\* without multiScanId and tokenValidation; the length of a non-empty
\* manifest list is left to CountSpec.
Init ==
    /\ workspaceDescriptors \in SeqsUpTo(EmptyOrNot, MaxEcosystems)
    /\ jasRunners \in SeqsUpTo(BOOLEAN, MaxRunners)
    /\ reportAnalytics \in BOOLEAN
    /\ multiScanId = "undefined"
    /\ tokenValidation = FALSE
    /\ Called

\* The try block raised `error`: catch block, finally block, rethrow.
Throw(error) ==
    /\ status' = CatchStatus(error)
    /\ statusAtFinal' = CatchStatus(error)
    /\ log' = Append(Finally(log), "raise")
    /\ raised' = error
    /\ pc' = "done"

\* The user cancels: from now on checkCanceled() raises.
Cancel ==
    /\ ~cancelRequested
    /\ \/ pc # "done"
       \/ \E i \in Deps : depTask[i] = "running"
    /\ cancelRequested' = TRUE
    /\ UNCHANGED <<graphVars, workspaceDescriptors, jasRunners, reportAnalytics, multiScanId, tokenValidation, polls, runParams, analytics, pc, idx, status,
                   depTask, depError, runTask, results, totalTasks, launched,
                   recheckCount, cancelSeen, raised, statusAtFinal, log>>

\* await getSupportedScans() resolves; the session and the runners are built
\* and the progress step is started.
GetSupportedScans ==
    /\ pc = "getSupportedScans"
    /\ totalTasks' = calculateNumberOfTasks(jasRunners, workspaceDescriptors)
    /\ pc' = "try"
    /\ UNCHANGED <<graphVars, workspaceDescriptors, jasRunners, reportAnalytics, multiScanId, tokenValidation, polls, runParams, analytics, cancelRequested, idx,
                   status, depTask, depError, runTask, results, launched,
                   recheckCount, cancelSeen, raised, statusAtFinal, log>>

\* await getSupportedScans() rejects: the rejection leaves scanWorkspace
\* before the try statement is entered.
GetSupportedScansFails ==
    /\ pc = "getSupportedScans"
    /\ raised' = "Error"
    /\ log' = Append(log, "raise")
    /\ pc' = "done"
    /\ UNCHANGED <<graphVars, workspaceDescriptors, jasRunners, reportAnalytics, multiScanId, tokenValidation, polls, runParams, analytics, cancelRequested, idx,
                   status, depTask, depError, runTask, results, totalTasks, launched,
                   recheckCount, cancelSeen, statusAtFinal>>

\* StartScan with the test of the configuration lost.
StartScan_IgnoresConfiguration ==
    /\ pc = "try"
    /\ analytics' = "started"
    /\ pc' = "checkCanceled"
    /\ UNCHANGED <<graphVars, workspaceDescriptors, jasRunners, reportAnalytics, multiScanId, tokenValidation, polls, runParams, cancelRequested, idx,
                   status, depTask, depError, runTask, results, totalTasks, launched,
                   recheckCount, cancelSeen, raised, statusAtFinal, log>>

\* if (Configuration.getReportAnalytics()) { await scanDetails.startScan(); }
StartScan ==
    /\ pc = "try"
    /\ analytics' = IF reportAnalytics THEN "started" ELSE analytics
    /\ pc' = "checkCanceled"
    /\ UNCHANGED <<graphVars, workspaceDescriptors, jasRunners, reportAnalytics, multiScanId, tokenValidation, polls, runParams, cancelRequested, idx,
                   status, depTask, depError, runTask, results, totalTasks, launched,
                   recheckCount, cancelSeen, raised, statusAtFinal, log>>

\* await scanDetails.startScan() rejects inside the try block.
StartScanFails ==
    /\ pc = "try"
    /\ reportAnalytics
    /\ analytics' = "failed"
    /\ Throw("Error")
    /\ UNCHANGED <<graphVars, workspaceDescriptors, jasRunners, reportAnalytics, multiScanId, tokenValidation, polls, runParams, cancelRequested, idx,
                   depTask, depError, runTask, results, totalTasks, launched,
                   recheckCount, cancelSeen>>

\* checkCanceled() of scanWorkspace, before the fan-out.
CheckCanceled ==
    /\ pc = "checkCanceled"
    /\ IF cancelRequested
       THEN /\ Throw("ScanCancellationError")
            /\ cancelSeen' = "preFanOut"
       ELSE /\ pc' = "runDependenciesScans"
            /\ UNCHANGED <<status, statusAtFinal, log, raised, cancelSeen>>
    /\ UNCHANGED <<graphVars, workspaceDescriptors, jasRunners, reportAnalytics, multiScanId, tokenValidation, polls, runParams, analytics, cancelRequested, idx,
                   depTask, depError, runTask, results, totalTasks, launched, recheckCount>>

\* One iteration of the loop of runDependenciesScans: checkCanceled(), then
\* the task of the entry is launched and its promise pushed.
LaunchDependencyScan ==
    /\ pc = "runDependenciesScans"
    /\ idx \in Deps
    /\ recheckCount' = recheckCount + 1
    /\ IF cancelRequested
       THEN /\ Throw("ScanCancellationError")
            /\ cancelSeen' = "recheck"
            /\ UNCHANGED <<idx, depTask, launched>>
       ELSE /\ depTask' = [depTask EXCEPT ![idx] = "running"]
            /\ launched' = Append(launched, DepId(idx))
            /\ idx' = idx + 1
            /\ UNCHANGED <<pc, status, statusAtFinal, log, raised, cancelSeen>>
    /\ UNCHANGED <<graphVars, workspaceDescriptors, jasRunners, reportAnalytics, multiScanId, tokenValidation, polls, runParams, analytics, cancelRequested,
                   depError, runTask, results, totalTasks>>

ShouldRun == {j \in Runners : jasRunners[j]}

\* PushRunners with unshift in place of push.
RECURSIVE PushRunners_Unshift(_, _)
PushRunners_Unshift(j, promises) ==
    IF j > Len(jasRunners) THEN promises
    ELSE PushRunners_Unshift(j + 1, IF jasRunners[j] THEN <<RunId(j)>> \o promises ELSE promises)

RECURSIVE PushRunners(_, _)
PushRunners(j, promises) ==
    IF j > Len(jasRunners) THEN promises
    ELSE PushRunners(j + 1, IF jasRunners[j] THEN Append(promises, RunId(j)) ELSE promises)

\* The loop of runDependenciesScans has ended; runSourceCodeScans launches
\* the runners and Promise.all is awaited.
RunSourceCodeScans ==
    /\ pc = "runDependenciesScans"
    /\ idx \notin Deps
    /\ runTask' = [j \in Runners |-> IF j \in ShouldRun THEN "running" ELSE "notLaunched"]
    /\ runParams' = [j \in Runners |-> IF j \in ShouldRun
                                        THEN BuildParams(multiScanId, tokenValidation)
                                        ELSE Undefined]
    /\ launched' = PushRunners(1, launched)
    /\ pc' = "awaitAll"
    /\ UNCHANGED <<graphVars, workspaceDescriptors, jasRunners, reportAnalytics, multiScanId, tokenValidation, polls, analytics, cancelRequested, idx,
                   status, depTask, depError, results, totalTasks,
                   recheckCount, cancelSeen, raised, statusAtFinal, log>>

\* Promise callbacks run only while scanWorkspace is suspended or has exited.
Suspended == pc \in {"awaitAll", "done"}

\* DependencyScanResolves with a .then handler that records the success.
DependencyScanResolves_ResetsStatus(i) ==
    /\ Suspended
    /\ depTask[i] = "running"
    /\ depTask' = [depTask EXCEPT ![i] = "resolved"]
    /\ results' = results \cup {DepId(i)}
    /\ status' = "Completed"
    /\ UNCHANGED <<graphVars, workspaceDescriptors, jasRunners, reportAnalytics, multiScanId, tokenValidation, polls, runParams, analytics, cancelRequested, pc, idx,
                   depError, runTask, totalTasks, launched,
                   recheckCount, cancelSeen, raised, statusAtFinal, log>>

\* DependencyUtils.scanPackageDependencies resolves.
DependencyScanResolves(i) ==
    /\ Suspended
    /\ depTask[i] = "running"
    /\ depTask' = [depTask EXCEPT ![i] = "resolved"]
    /\ results' = results \cup {DepId(i)}
    /\ UNCHANGED <<graphVars, workspaceDescriptors, jasRunners, reportAnalytics, multiScanId, tokenValidation, polls, runParams, analytics, cancelRequested, pc, idx,
                   status, depError, runTask, totalTasks, launched,
                   recheckCount, cancelSeen, raised, statusAtFinal, log>>

\* A poll tick of the remote scan of a dependency task: the cancellation
\* check comes first (when it raises, the tick is DependencyScanRejects with
\* ScanCancellationError), then the job is polled.
DependencyScanPolls(i) ==
    /\ Suspended
    /\ depTask[i] = "running"
    /\ ~cancelRequested
    /\ polls[i] < MaxPolls
    /\ polls' = [polls EXCEPT ![i] = @ + 1]
    /\ UNCHANGED <<graphVars, workspaceDescriptors, jasRunners, reportAnalytics, multiScanId, tokenValidation, runParams, analytics, cancelRequested, pc, idx,
                   status, depTask, depError, runTask, results, totalTasks, launched,
                   recheckCount, cancelSeen, raised, statusAtFinal, log>>

\* DependencyScanRejects with a rejection that aborts the other dependency tasks.
DependencyScanRejects_AbortsSiblings(i, error) ==
    /\ Suspended
    /\ depTask[i] = "running"
    /\ error = "ScanCancellationError" => cancelRequested
    /\ depTask' = [k \in Deps |-> IF depTask[k] = "running" THEN "caught" ELSE depTask[k]]
    /\ depError' = [depError EXCEPT ![i] = error]
    /\ status' = "Failed"
    /\ UNCHANGED <<graphVars, workspaceDescriptors, jasRunners, reportAnalytics, multiScanId, tokenValidation, polls, runParams, analytics, cancelRequested, pc, idx,
                   runTask, results, totalTasks, launched,
                   recheckCount, cancelSeen, raised, statusAtFinal, log>>

\* DependencyScanRejects with a handler that also drops what the siblings wrote.
DependencyScanRejects_DiscardsResults(i, error) ==
    /\ Suspended
    /\ depTask[i] = "running"
    /\ error = "ScanCancellationError" => cancelRequested
    /\ depTask' = [depTask EXCEPT ![i] = "caught"]
    /\ depError' = [depError EXCEPT ![i] = error]
    /\ status' = "Failed"
    /\ results' = {}
    /\ UNCHANGED <<graphVars, workspaceDescriptors, jasRunners, reportAnalytics, multiScanId, tokenValidation, polls, runParams, analytics, cancelRequested, pc, idx,
                   runTask, totalTasks, launched,
                   recheckCount, cancelSeen, raised, statusAtFinal, log>>

\* DependencyUtils.scanPackageDependencies rejects with `error`; the .catch
\* handler logs it and sets the status.
DependencyScanRejects(i, error) ==
    /\ Suspended
    /\ depTask[i] = "running"
    /\ error = "ScanCancellationError" => cancelRequested
    /\ depTask' = [depTask EXCEPT ![i] = "caught"]
    /\ depError' = [depError EXCEPT ![i] = error]
    /\ status' = "Failed"
    /\ UNCHANGED <<graphVars, workspaceDescriptors, jasRunners, reportAnalytics, multiScanId, tokenValidation, polls, runParams, analytics, cancelRequested, pc, idx,
                   runTask, results, totalTasks, launched,
                   recheckCount, cancelSeen, raised, statusAtFinal, log>>

\* runner.scan(params) resolves.
RunnerScanResolves(j) ==
    /\ Suspended
    /\ runTask[j] = "running"
    /\ runTask' = [runTask EXCEPT ![j] = "resolved"]
    /\ results' = results \cup {RunId(j)}
    /\ UNCHANGED <<graphVars, workspaceDescriptors, jasRunners, reportAnalytics, multiScanId, tokenValidation, polls, runParams, analytics, cancelRequested, pc, idx,
                   status, depTask, depError, totalTasks, launched,
                   recheckCount, cancelSeen, raised, statusAtFinal, log>>

\* RunnerScanRejects with a handler that only logs.
RunnerScanRejects_StatusUntouched(j) ==
    /\ Suspended
    /\ runTask[j] = "running"
    /\ runTask' = [runTask EXCEPT ![j] = "caught"]
    /\ UNCHANGED <<graphVars, workspaceDescriptors, jasRunners, reportAnalytics, multiScanId, tokenValidation, polls, runParams, analytics, cancelRequested, pc, idx,
                   status, depTask, depError, results, totalTasks, launched,
                   recheckCount, cancelSeen, raised, statusAtFinal, log>>

\* runner.scan(params) rejects; the .catch handler logs and sets the status.
RunnerScanRejects(j) ==
    /\ Suspended
    /\ runTask[j] = "running"
    /\ runTask' = [runTask EXCEPT ![j] = "caught"]
    /\ status' = "Failed"
    /\ UNCHANGED <<graphVars, workspaceDescriptors, jasRunners, reportAnalytics, multiScanId, tokenValidation, polls, runParams, analytics, cancelRequested, pc, idx,
                   depTask, depError, results, totalTasks, launched,
                   recheckCount, cancelSeen, raised, statusAtFinal, log>>

Launched == {launched[k] : k \in DOMAIN launched}

Running ==
    {DepId(i) : i \in {k \in Deps : depTask[k] = "running"}}
        \cup {RunId(j) : j \in {k \in Runners : runTask[k] = "running"}}

\* PromiseAll with Promise.race in place of Promise.all.
PromiseAll_Race ==
    /\ pc = "awaitAll"
    /\ Running = {} \/ Running # Launched
    /\ statusAtFinal' = status
    /\ log' = Append(Finally(log), "return")
    /\ pc' = "done"
    /\ UNCHANGED <<graphVars, workspaceDescriptors, jasRunners, reportAnalytics, multiScanId, tokenValidation, polls, runParams, analytics, cancelRequested, idx,
                   status, depTask, depError, runTask, results, totalTasks, launched,
                   recheckCount, cancelSeen, raised>>

\* Promise.all fulfils once every pushed promise is fulfilled; the finally
\* block runs and scanWorkspace returns.
PromiseAll ==
    /\ pc = "awaitAll"
    /\ Running = {}
    /\ statusAtFinal' = status
    /\ log' = Append(Finally(log), "return")
    /\ pc' = "done"
    /\ UNCHANGED <<graphVars, workspaceDescriptors, jasRunners, reportAnalytics, multiScanId, tokenValidation, polls, runParams, analytics, cancelRequested, idx,
                   status, depTask, depError, runTask, results, totalTasks, launched,
                   recheckCount, cancelSeen, raised>>

Next ==
    \/ Cancel
    \/ GetSupportedScans
    \/ GetSupportedScansFails
    \/ StartScan
    \/ StartScanFails
    \/ CheckCanceled
    \/ LaunchDependencyScan
    \/ RunSourceCodeScans
    \/ \E i \in Deps : DependencyScanResolves(i)
    \/ \E i \in Deps, error \in {"Error", "ScanCancellationError"} : DependencyScanRejects(i, error)
    \/ \E j \in Runners : RunnerScanResolves(j)
    \/ \E j \in Runners : RunnerScanRejects(j)
    \/ PromiseAll

Spec == Init /\ [][Next]_vars

\* scanWorkspace for sessions with and without a multiScanId and the
\* tokenValidation capability, on a workspace of at most one ecosystem.
ParamsInit ==
    /\ workspaceDescriptors \in {<<>>, <<1>>}
    /\ jasRunners \in SeqsUpTo(BOOLEAN, MaxRunners)
    /\ reportAnalytics \in BOOLEAN
    /\ multiScanId \in MultiScanIds
    /\ tokenValidation \in BOOLEAN
    /\ Called

ParamsSpec == ParamsInit /\ [][Next]_vars

\* scanWorkspace with the poll ticks of the dependency tasks, on a workspace
\* of one or two ecosystems with at most one runner.
PollInit ==
    /\ workspaceDescriptors \in {<<1>>, <<1, 1>>}
    /\ jasRunners \in {<<>>, <<TRUE>>}
    /\ reportAnalytics \in BOOLEAN
    /\ multiScanId = "undefined"
    /\ tokenValidation = FALSE
    /\ Called

PollNext ==
    \/ Next
    \/ \E i \in Deps : DependencyScanPolls(i)

PollSpec == PollInit /\ [][PollNext]_vars

\* The progress step of scanWorkspace for manifest lists of any length.
CountInit ==
    /\ workspaceDescriptors \in SeqsUpTo(0..MaxManifests, MaxEcosystems)
    /\ jasRunners \in SeqsUpTo(BOOLEAN, MaxRunners)
    /\ reportAnalytics = FALSE
    /\ multiScanId = "undefined"
    /\ tokenValidation = FALSE
    /\ Called

CountSpec == CountInit /\ [][GetSupportedScans]_vars

(***************************************************************************)
(* scanDependencyGraph, called on its own for one dependency graph         *)
(***************************************************************************)
Identities == {"X@1", "Y"}

\* Trees of up to n nodes under the root: node p has an identity and a
\* parent among the root (0) and the nodes before it.
RECURSIVE Trees(_)
Trees(n) ==
    IF n = 0 THEN {<<>>}
    ELSE LET smaller == Trees(n - 1)
         IN smaller \cup {Append(t, [id |-> d, parent |-> q]) :
                             t \in {u \in smaller : Len(u) = n - 1},
                             d \in Identities, q \in 0..(n - 1)}

InSeq(l, e) == \E k \in DOMAIN l : l[k] = e

\* The graph flattened to its distinct dependencies, first seen first.
RECURSIVE Flatten(_, _)
Flatten(nodes, distinct) ==
    IF nodes = <<>> THEN distinct
    ELSE Flatten(Tail(nodes),
                 IF InSeq(distinct, Head(nodes).id) THEN distinct
                 ELSE Append(distinct, Head(nodes).id))

\* The graph sent as it is, one entry for each node.
RECURSIVE AsIs(_)
AsIs(nodes) == IF nodes = <<>> THEN <<>> ELSE <<Head(nodes).id>> \o AsIs(Tail(nodes))

\* The findings of the service mapped back on every node of the tree.
MapBack(nodes, findings) == {p \in DOMAIN nodes : nodes[p].id \in findings}

\* No scan of the orchestrator is under way.
ScanIdle ==
    /\ workspaceDescriptors = <<>>
    /\ jasRunners = <<>>
    /\ reportAnalytics = FALSE
    /\ analytics = "notStarted"
    /\ multiScanId = "undefined"
    /\ tokenValidation = FALSE
    /\ runParams = <<>>
    /\ polls = <<>>
    /\ pc = "getSupportedScans"
    /\ idx = 1
    /\ status = InitialStatus
    /\ depTask = <<>>
    /\ depError = <<>>
    /\ runTask = <<>>
    /\ results = {}
    /\ totalTasks = -1
    /\ launched = <<>>
    /\ recheckCount = 0
    /\ cancelSeen = "none"
    /\ raised = "none"
    /\ statusAtFinal = "none"
    /\ log = <<>>

GraphInit ==
    /\ ScanIdle
    /\ cancelRequested = FALSE
    /\ graphRoot \in Trees(MaxNodes)
    /\ vulnerable \in SUBSET Identities
    /\ gpc = "idle"
    /\ submitted = <<>>
    /\ graphResponse = {}

\* scanDependencyGraph with the graph kept as it is.
scanDependencyGraph_KeepsGraph ==
    /\ gpc = "idle"
    /\ submitted' = AsIs(graphRoot)
    /\ gpc' = "polling"
    /\ UNCHANGED <<scanVars, cancelRequested, graphRoot, vulnerable, graphResponse>>

\* scanDependencyGraph: new GraphScanLogic(...).scan(graphRoot, ...), which
\* flattens the graph and submits its distinct dependencies.
scanDependencyGraph ==
    /\ gpc = "idle"
    /\ submitted' = Flatten(graphRoot, <<>>)
    /\ gpc' = "polling"
    /\ UNCHANGED <<scanVars, cancelRequested, graphRoot, vulnerable, graphResponse>>

\* The user cancels while the job is polled.
GraphCancel ==
    /\ gpc = "polling"
    /\ ~cancelRequested
    /\ cancelRequested' = TRUE
    /\ UNCHANGED <<scanVars, graphVars>>

\* A poll tick on which checkCanceled raises: the scan is abandoned.
GraphPollCancelled ==
    /\ gpc = "polling"
    /\ cancelRequested
    /\ gpc' = "cancelled"
    /\ UNCHANGED <<scanVars, cancelRequested, graphRoot, vulnerable, submitted, graphResponse>>

\* A poll tick on which the job is complete: the result is returned.
GraphPollCompletes ==
    /\ gpc = "polling"
    /\ ~cancelRequested
    /\ graphResponse' = MapBack(graphRoot, {d \in vulnerable : InSeq(submitted, d)})
    /\ gpc' = "done"
    /\ UNCHANGED <<scanVars, cancelRequested, graphRoot, vulnerable, submitted>>

\* The submission or a poll fails.
GraphFails ==
    /\ gpc = "polling"
    /\ gpc' = "failed"
    /\ UNCHANGED <<scanVars, cancelRequested, graphRoot, vulnerable, submitted, graphResponse>>

GraphNext ==
    \/ scanDependencyGraph
    \/ GraphCancel
    \/ GraphPollCancelled
    \/ GraphPollCompletes
    \/ GraphFails

GraphSpec == GraphInit /\ [][GraphNext]_vars

(***************************************************************************)
(* Properties                                                              *)
(***************************************************************************)
Count(l, e) == Cardinality({k \in DOMAIN l : l[k] = e})

Caught ==
    {DepId(i) : i \in {k \in Deps : depTask[k] = "caught"}}
        \cup {RunId(j) : j \in {k \in Runners : runTask[k] = "caught"}}

\* endScan is called exactly once, sendUsageReport right after it exactly once.
FinalizedOnce ==
    /\ Count(log, "endScan") = 1
    /\ Count(log, "sendUsageReport") = 1
    /\ \E k \in DOMAIN log : log[k] = "endScan" /\ k + 1 \in DOMAIN log /\ log[k + 1] = "sendUsageReport"

\* C1: every scanWorkspace invocation that has exited, on whatever path
\* (normal return, task failure, cancellation, a failure of capability
\* discovery or of analytics start), has run finalization exactly once:
\* endScan followed by sendUsageReport.
C1_FinalizationOnEveryExit == pc = "done" => FinalizedOnce

\* C2: if checkCanceled raises at the check before the fan-out, no
\* dependency task and no runner task is ever launched, the status is
\* Cancelled and scanWorkspace raises the cancellation to its caller.
C2_PreFanOutCancel ==
    cancelSeen = "preFanOut" =>
        /\ launched = <<>>
        /\ recheckCount = 0
        /\ \A i \in Deps : depTask[i] = "notLaunched"
        /\ \A j \in Runners : runTask[j] = "notLaunched"
        /\ status = "Cancelled"
        /\ statusAtFinal = "Cancelled"
        /\ raised = "ScanCancellationError"
        /\ pc = "done"

C2_Witness ==
    /\ cancelSeen = "preFanOut"
    /\ pc = "done"
    /\ \E i \in Deps : workspaceDescriptors[i] > 0
    /\ ShouldRun # {}

\* C3: the step in which one dependency task or one runner task fails
\* changes no sibling task and removes nothing from the accumulator, and
\* when scanWorkspace has returned every launched task has completed and the
\* accumulator holds the results of every launched task that did not fail.
C3_FailureStep ==
    /\ \A i \in Deps : depTask[i] = "running" /\ depTask'[i] = "caught" =>
          /\ \A k \in Deps \ {i} : depTask'[k] = depTask[k]
          /\ runTask' = runTask
          /\ results \subseteq results'
    /\ \A j \in Runners : runTask[j] = "running" /\ runTask'[j] = "caught" =>
          /\ \A k \in Runners \ {j} : runTask'[k] = runTask[k]
          /\ depTask' = depTask
          /\ results \subseteq results'

C3_AtReturn ==
    pc = "done" /\ raised = "none" =>
        /\ Running = {}
        /\ results = Launched \ Caught

C3_PartialFailureIsolation == [][C3_FailureStep]_vars /\ []C3_AtReturn

C3_Witness ==
    /\ pc = "done"
    /\ raised = "none"
    /\ \E i \in Deps : depTask[i] = "caught" /\ depError[i] = "Error"
    /\ \E i \in Deps : DepId(i) \in results
    /\ \E j \in Runners : RunId(j) \in results

\* C4: whenever cancellation was observed at a checkpoint (the check before
\* the fan-out, the re-check of the launch loop, or a checkpoint inside a
\* running dependency task), the status at finalization is Cancelled and the
\* cancellation is raised to the caller of scanWorkspace.
C4_CancellationReported ==
    (pc = "done" /\ (cancelSeen # "none" \/ \E i \in Deps : depError[i] = "ScanCancellationError")) =>
        /\ statusAtFinal = "Cancelled"
        /\ raised = "ScanCancellationError"

\* C5: when a dependency task or a runner task has failed and no check of
\* the orchestrator observed a cancellation, scanWorkspace returns normally,
\* the status is Failed, at finalization too, and the usage report was sent.
C5_TaskFailureSwallowed ==
    (pc = "done" /\ cancelSeen = "none" /\ Caught # {}) =>
        /\ raised = "none"
        /\ log[Len(log)] = "return"
        /\ status = "Failed"
        /\ statusAtFinal = "Failed"
        /\ Count(log, "sendUsageReport") = 1

\* Runner A fails, runner B and both dependency tasks succeed.
C5_Witness ==
    /\ pc = "done"
    /\ Len(jasRunners) = 2 /\ runTask[1] = "caught" /\ runTask[2] = "resolved"
    /\ Len(workspaceDescriptors) = 2 /\ \A i \in Deps : depTask[i] = "resolved"
    /\ results = {RunId(2), DepId(1), DepId(2)}

Terminal == {"Failed", "Cancelled"}

C6_Step == status \in Terminal => status' \in Terminal

\* C6: once the status is Failed or Cancelled, no step (a task resolving,
\* the join, finalization) sets it back to Pending or to a success state.
C6_StatusMonotonic == [][C6_Step]_vars

C6_Witness ==
    /\ status = "Failed"
    /\ pc = "done"
    /\ raised = "none"
    /\ \E i \in Deps : depTask[i] = "resolved"
    /\ \E i \in Deps : depTask[i] = "caught"

\* C7: when finalization has run and scanWorkspace has returned or raised,
\* no task launched by the invocation is still running.
C7_JoinCoversAll == pc = "done" => Running = {}

ApplicableRunners == Cardinality(ShouldRun)

RECURSIVE SumManifests(_)
SumManifests(i) == IF i = 0 THEN 0 ELSE workspaceDescriptors[i] + SumManifests(i - 1)

\* C8: the total handed to the progress step is the sum of the manifest
\* counts of all ecosystems plus the number of runners whose shouldRun() is
\* true.
C8_TaskCount ==
    pc # "getSupportedScans" /\ totalTasks # -1 =>
        totalTasks = SumManifests(Len(workspaceDescriptors)) + ApplicableRunners

\* C9: a dependency task is launched only for an entry with a non-empty
\* manifest list, and once the launch loop has ended exactly one task was
\* launched for each such entry, each after one re-check.
C9_OneTaskPerNonEmptyEntry ==
    /\ \A i \in Deps : depTask[i] # "notLaunched" => workspaceDescriptors[i] > 0
    /\ pc = "awaitAll" =>
          /\ \A i \in Deps : workspaceDescriptors[i] > 0 => Count(launched, DepId(i)) = 1
          /\ recheckCount = Cardinality({i \in Deps : workspaceDescriptors[i] > 0})

\* C10: a failure of analytics start does not fail the scan: the status is
\* not set to Failed because of it and scanWorkspace does not raise it.
C10_AnalyticsNeverFailsScan ==
    analytics = "failed" => raised = "none" /\ status # "Failed"

\* The try statement was entered: the progress step was started before it.
EnteredTry == totalTasks # -1

Exits == {k \in DOMAIN log : log[k] \in {"return", "raise"}}

\* C11: whenever scanWorkspace has returned, or has raised a condition out
\* of its try block, endScan and then sendUsageReport were called before the
\* caller could observe it.
C11_ExitAfterFinalization ==
    \A k \in Exits : EnteredTry =>
        \E a, b \in DOMAIN log :
            a < b /\ b < k /\ log[a] = "endScan" /\ log[b] = "sendUsageReport"

C11_Witness ==
    /\ pc = "done"
    /\ cancelSeen = "recheck"
    /\ log = <<"endScan", "sendUsageReport", "raise">>

IsDep(t) == t[1] = "dep"

\* C14: dependency tasks are launched in the iteration order of the
\* descriptor map, all of them before any runner, runners in the order of
\* the runner list; and while Promise.all is awaited every running task may
\* be the next to settle, whatever was launched before it.
C14_LaunchOrder ==
    /\ \A a, b \in DOMAIN launched : a < b =>
          \/ IsDep(launched[a]) /\ ~IsDep(launched[b])
          \/ IsDep(launched[a]) = IsDep(launched[b]) /\ launched[a][2] < launched[b][2]
    /\ pc = "awaitAll" =>
          /\ \A i \in Deps : depTask[i] = "running" =>
                ENABLED DependencyScanResolves(i) /\ ENABLED DependencyScanRejects(i, "Error")
          /\ \A j \in Runners : runTask[j] = "running" =>
                ENABLED RunnerScanResolves(j) /\ ENABLED RunnerScanRejects(j)
          /\ Running = {} => ENABLED PromiseAll

\* The task launched last has settled, the one launched first has not.
C14_Witness ==
    /\ pc = "awaitAll"
    /\ launched = <<DepId(1), DepId(2), RunId(1), RunId(2)>>
    /\ depTask[1] = "running"
    /\ depTask[2] = "caught"
    /\ runTask[1] = "running"
    /\ runTask[2] = "resolved"

C17_Step ==
    /\ status = "Cancelled" => status' = "Cancelled"
    /\ pc = "done" => status' = status

\* C17: once the status is Cancelled no step changes it to Failed, and no
\* step writes the status after the finally block has run.
C17_CancelledIsFinal == [][C17_Step]_vars

\* C18: when scanWorkspace raised out of its try block, the status set by the
\* catch block, which the finally block and the caller see at the raise, is
\* Cancelled if and only if the condition is a ScanCancellationError and
\* Failed otherwise, and the caller got one condition and no return.
C18_StatusMatchesRaised ==
    (EnteredTry /\ raised # "none") =>
        /\ raised = "ScanCancellationError" <=> statusAtFinal = "Cancelled"
        /\ raised # "ScanCancellationError" <=> statusAtFinal = "Failed"
        /\ Count(log, "raise") = 1
        /\ Count(log, "return") = 0

C18_Witness ==
    /\ pc = "done"
    /\ raised = "Error"
    /\ analytics = "failed"
    /\ statusAtFinal = "Failed"

\* C19: when scanWorkspace has returned normally every task it launched has
\* settled, and the status is Failed if and only if a launched task failed,
\* whatever the order in which the tasks settled.
C19_StatusAtReturn ==
    (pc = "done" /\ raised = "none") =>
        /\ Running = {}
        /\ \A i \in Deps : depTask[i] \in {"resolved", "caught"}
        /\ \A j \in ShouldRun : runTask[j] \in {"resolved", "caught"}
        /\ status = "Failed" <=> Caught # {}
        /\ statusAtFinal = status

C19_Witness ==
    /\ pc = "done"
    /\ raised = "none"
    /\ status = InitialStatus
    /\ Cardinality(Launched) >= 3
    /\ Caught = {}

\* runSourceCodeScans has run.
RanSourceCodeScans == pc = "awaitAll" \/ (pc = "done" /\ raised = "none")

\* C15: every launched runner got the same parameter bag; the bag holds msi
\* if and only if the session has a (non-empty) multiScanId, holds
\* tokenValidation if and only if the supported scans include it, and is
\* undefined exactly when it holds neither; a runner is launched if and only
\* if its shouldRun() is true.
C15_RunnerParams ==
    RanSourceCodeScans =>
        /\ \A j \in Runners : runTask[j] # "notLaunched" <=> jasRunners[j]
        /\ \A j, k \in ShouldRun : runParams[j] = runParams[k]
        /\ \A j \in ShouldRun :
              /\ runParams[j].msi # "absent" <=> multiScanId \in {"msi-1"}
              /\ runParams[j].msi # "absent" => runParams[j].msi = multiScanId
              /\ runParams[j].tokenValidation # "absent" <=> tokenValidation
              /\ ~runParams[j].defined <=>
                    (runParams[j].msi = "absent" /\ runParams[j].tokenValidation = "absent")

C15_Witness ==
    /\ pc = "awaitAll"
    /\ jasRunners = <<TRUE, FALSE>>
    /\ multiScanId = "msi-1"
    /\ tokenValidation
    /\ runParams[1] = [defined |-> TRUE, msi |-> "msi-1", tokenValidation |-> "true"]
    /\ runTask[1] = "running"

\* scanWorkspace is past the await of startScan inside the try block.
PastStartScan ==
    \/ pc \in {"checkCanceled", "runDependenciesScans", "awaitAll"}
    \/ cancelSeen # "none"
    \/ launched # <<>>

\* C16 as stated: with analytics enabled the record is started before the
\* check before the fan-out and before any launch; with analytics disabled
\* no record is started, and endScan is called only for a started record.
C16_EndScanOnlyIfStarted ==
    /\ PastStartScan /\ reportAnalytics => analytics = "started"
    /\ ~reportAnalytics => analytics = "notStarted"
    /\ Count(log, "endScan") > 0 => analytics = "started"

\* C16 amended: with analytics enabled the record is started before the
\* check before the fan-out and before any launch; with analytics disabled
\* no record is started; endScan is called once on every exit out of the try
\* statement, whether or not a record was started.
C16_AnalyticsStart ==
    /\ PastStartScan /\ reportAnalytics => analytics = "started"
    /\ ~reportAnalytics => analytics = "notStarted"
    /\ pc = "done" /\ EnteredTry => Count(log, "endScan") = 1

C16_Witness ==
    /\ ~reportAnalytics
    /\ analytics = "notStarted"
    /\ pc = "done"
    /\ launched # <<>>
    /\ Count(log, "endScan") = 1

C13_Step ==
    /\ \A i \in Deps : polls'[i] # polls[i] => ~cancelRequested /\ depTask[i] = "running"
    /\ \A i \in Deps :
          (depTask[i] = "running" /\ depTask'[i] = "caught" /\ depError'[i] = "ScanCancellationError") =>
              /\ cancelRequested
              /\ polls' = polls
              /\ \A k \in Deps \ {i} : depTask'[k] = depTask[k] /\ depError'[k] = depError[k]
              /\ runTask' = runTask
              /\ results' = results
              /\ pc' = pc /\ raised' = raised

\* C13: once cancellation is triggered, the next poll tick of a dependency
\* task raises the cancellation without polling the job again and the task
\* polls no more; the step in which it does so changes no other dependency
\* task and no runner task.
C13_CancelDuringPoll == [][C13_Step]_vars

\* A task cancelled after a poll, its siblings still running.
C13_Witness ==
    /\ pc = "awaitAll"
    /\ Len(workspaceDescriptors) = 2
    /\ depTask[1] = "caught" /\ depError[1] = "ScanCancellationError" /\ polls[1] = 1
    /\ depTask[2] = "running" /\ polls[2] = 1
    /\ \E j \in Runners : runTask[j] = "running"

\* C12: the scan reached through scanDependencyGraph submits every identity
\* of the tree exactly once, at however many positions it appears, and the
\* result it returns attributes findings to every position of the tree whose
\* identity has findings.
C12_DistinctSubmission ==
    /\ gpc # "idle" =>
          /\ \A d \in Identities :
                Count(submitted, d) = IF \E p \in DOMAIN graphRoot : graphRoot[p].id = d THEN 1 ELSE 0
    /\ gpc = "done" =>
          \A p \in DOMAIN graphRoot : p \in graphResponse <=> graphRoot[p].id \in vulnerable

\* root -> {X@1, Y -> X@1}, findings for X@1
C12_Witness ==
    /\ gpc = "done"
    /\ graphRoot = <<[id |-> "X@1", parent |-> 0], [id |-> "Y", parent |-> 0], [id |-> "X@1", parent |-> 2]>>
    /\ vulnerable = {"X@1"}
    /\ submitted = <<"X@1", "Y">>
    /\ graphResponse = {1, 3}

====
